---- MODULE Spec2Model ----
\* Model of the two scraper scripts of cabrador/solana-scraper:
\*   src/main.ts            (a failed transaction fetch returns the partial set)
\*   src/unnamed/part_000   (a failed transaction fetch sleeps 10 s and continues)
\* One run of the script's IIFE is modelled: getInteractingAddresses followed by
\* createCSV.  Every await is a suspension point: the call is put in flight
\* (pending / timer) by one step and resolved by the ledger, the timer or the
\* file system in a later step.  The block-time / slot progress logging
\* (main.ts 52-68, part_000 52-62) only prints and is left out.
EXTENDS Integers, Sequences, FiniteSets, TLC

\* ---------------------------------------------------------------- bounds
NumContracts == 2
MaxSigs == 2
MaxKeys == 2
NumAddrs == 2

\* ---------------------------------------------------- program constants
PageLimit == 1000
SleepMain == 5000
SleepPart == 100
Cooldown == 10000

Scripts == {"main", "part_000"}

ContractNames ==
  << "LBUZKhRxPF3XUpBCjp4YzTKgLccjZhTSDM9YuVaPwxo",
     "675kPX9MHTjS2zt1qfr1NYHuzeLXfQM9H24wFSUt1Mp8",
     "2wT8Yq49kHgDzXuPxZSaeLaH1qbmGXtEyPy64bL7aD3c",
     "whirLbMiicVdio4qvUfM5KAg6Ct8VwpYzGff3uctyCc" >>

\* the caller-supplied list, cut to the bound
contracts == SubSeq(ContractNames, 1, NumContracts)

AddrNames == << "Addr1", "Addr2", "Addr3", "Addr4" >>

\* public keys the ledger may report in account entries
Addrs == { AddrNames[n] : n \in 1..NumAddrs }

\* one entry of transaction.transaction.message.accountKeys
AccountEntries == [pubkey : Addrs, signer : BOOLEAN]

AccountKeyLists == UNION { [1..n -> AccountEntries] : n \in 0..MaxKeys }

\* value of `transaction` when the ledger answered null, and outside an iteration
NoTransaction == [found |-> FALSE, hasKeys |-> FALSE, accountKeys |-> << >>]

\* a transaction whose message has no accountKeys
KeylessTransaction == [found |-> TRUE, hasKeys |-> FALSE, accountKeys |-> << >>]

ParsedTransaction(keys) == [found |-> TRUE, hasKeys |-> TRUE, accountKeys |-> keys]

Range(s) == { s[j] : j \in 1..Len(s) }

\* the public keys of the entries of an account-key list flagged as signer
SignerKeys(keys) == { keys[j].pubkey : j \in { m \in 1..Len(keys) : keys[m].signer } }

\* the signer keys of an account-key list, in the order of the list
RECURSIVE SignerSeq(_)
SignerSeq(keys) ==
  IF Len(keys) = 0 THEN << >>
  ELSE IF Head(keys).signer THEN << Head(keys).pubkey >> \o SignerSeq(Tail(keys))
       ELSE SignerSeq(Tail(keys))

\* sequence `found` followed by the keys of `more` it does not hold, each once,
\* in the order of their first occurrence
RECURSIVE Merge(_, _)
Merge(found, more) ==
  IF Len(more) = 0 THEN found
  ELSE IF \E j \in 1..Len(found) : found[j] = Head(more)
       THEN Merge(found, Tail(more))
       ELSE Merge(Append(found, Head(more)), Tail(more))

Min(a, b) == IF a < b THEN a ELSE b

\* the page getSignaturesForAddress returns for contract c: n records, newest first
SignaturePage(c, n) == [k \in 1..n |-> [signature |-> << c, k >>]]

NoEvent == [address |-> "", count |-> 0]

VARIABLES
  script,           \* which of the two scripts runs
  pc,               \* position of the async function / IIFE
  contractIdx,      \* iterator of `for (const contract of contractPublicKey)`
  signatures,       \* the page returned by the listing call
  sigIdx,           \* iterator of `for (const signatureInfo of signatures)`
  transaction,      \* result of getParsedTransaction in the current iteration
  keyIdx,           \* position of forEach in accountKeys
  uniqueAddresses,  \* the Set<string>, in insertion order
  addresses,        \* value returned by getInteractingAddresses
  csvCalls,         \* number of calls of createCSV
  csvContent,       \* text handed to Deno.writeTextFile
  file,             \* content of the written file, << >> while not written
  pending,          \* network calls in flight
  timer,            \* milliseconds of the pending sleep, 0 when none
  errors,           \* kinds of errors reported through console.error
  emitted,          \* 'Found new unique address' report of the last step
  outcome,          \* how the fetch of the last iteration over this page ended
  trace,            \* history: listing calls, fetch calls and sleeps, in order
  pages,            \* history: length of the page returned for each contract
  observed,         \* history: signer keys of the transactions fetched with keys
  reference         \* history: what the ledger's answers so far amount to

vars == << script, pc, contractIdx, signatures, sigIdx, transaction, keyIdx,
           uniqueAddresses, addresses, csvCalls, csvContent, file, pending,
           timer, errors, emitted, outcome, trace, pages, observed, reference >>

ListCall(c) == [op |-> "list", contract |-> c, sig |-> 0]

FetchCall(c, signature) == [op |-> "fetch", contract |-> c, sig |-> signature[2]]

Event(op, c, s, ms) ==
  [op |-> op, contract |-> c, sig |-> s, ms |-> ms, found |-> Len(uniqueAddresses)]

Init ==
  /\ script \in Scripts
  /\ pc = "loopContract"
  /\ contractIdx = 0
  /\ signatures = << >>
  /\ sigIdx = 0
  /\ transaction = NoTransaction
  /\ keyIdx = 1
  /\ uniqueAddresses = << >>
  /\ addresses = << >>
  /\ csvCalls = 0
  /\ csvContent = << >>
  /\ file = << >>
  /\ pending = {}
  /\ timer = 0
  /\ errors = {}
  /\ emitted = NoEvent
  /\ outcome = "none"
  /\ trace = << >>
  /\ pages = << >>
  /\ observed = {}
  /\ reference = [all |-> << >>, beforeFailure |-> << >>]


\* ------------------------------------------------------------- helpers

\* Set.prototype.has
Has(set, a) == a \in Range(set)

SetAddPush(set, a) == Append(set, a)

\* Set.prototype.add: a JavaScript Set keeps insertion order and ignores a
\* value it already holds
SetAdd(set, a) == IF Has(set, a) THEN set ELSE Append(set, a)

IsSignerAlways(account) == TRUE

\* the test `if (account.signer)` of the forEach callback
IsSigner(account) == account.signer

PageAfterListingAppend(old, page) == old \o page

\* `const signatures = await ...`: each contract gets a fresh page
PageAfterListing(old, page) == page

SignatureAtReversed(page, i) == page[Len(page) + 1 - i]

\* the record `for (const signatureInfo of signatures)` yields at step i
SignatureAt(page, i) == page[i]

\* what the catch block around getParsedTransaction does: main.ts returns the
\* partial set, part_000 sleeps and continues
FailurePolicySkip(s) == "SkipAndContinue"

FailurePolicy(s) ==
  IF s = "main" THEN "AbortAndReturnPartial" ELSE "SkipAndContinue"

\* `continue` after the cooldown: the iterator stays where it is, so the for-of
\* moves on to the record after the failed one
RetrySame(i) == i - 1

ContinueFrom(i) == i

SleepMsShort(s) == SleepPart

\* the delay at the end of an iteration that reached the forEach
SleepMs(s) == IF s = "main" THEN SleepMain ELSE SleepPart

ArrayFromReversed(set) == [j \in 1..Len(set) |-> set[Len(set) + 1 - j]]

\* Array.from(uniqueAddresses): the elements of the Set in insertion order
ArrayFrom(set) == set

JoinNoDelimiter(strings) == strings

\* strings.join(";") + "\n", as the sequence of the pieces concatenated
RECURSIVE Join(_)
Join(strings) ==
  IF Len(strings) = 0 THEN << >>
  ELSE IF Len(strings) = 1 THEN << strings[1] >>
  ELSE << strings[1], ";" >> \o Join(Tail(strings))

CsvContent(strings) == Join(strings) \o << "\n" >>

\* ------------------------------------------------ getInteractingAddresses

StartListingResetsSet ==
  /\ pc = "loopContract"
  /\ contractIdx < Len(contracts)
  /\ contractIdx' = contractIdx + 1
  /\ uniqueAddresses' = << >>
  /\ pending' = pending \cup { ListCall(contractIdx + 1) }
  /\ trace' = Append(trace, Event("list", contractIdx + 1, 0, 0))
  /\ pc' = "listing"
  /\ emitted' = NoEvent
  /\ UNCHANGED << script, signatures, sigIdx, transaction, keyIdx,
                  addresses, csvCalls, csvContent, file,
                  timer, errors, outcome, pages, observed, reference >>

\* for-of over the contracts has a next element: the listing call is issued
\* and awaited
StartListing ==
  /\ pc = "loopContract"
  /\ contractIdx < Len(contracts)
  /\ contractIdx' = contractIdx + 1
  /\ pending' = pending \cup { ListCall(contractIdx + 1) }
  /\ trace' = Append(trace, Event("list", contractIdx + 1, 0, 0))
  /\ pc' = "listing"
  /\ emitted' = NoEvent
  /\ UNCHANGED << script, signatures, sigIdx, transaction, keyIdx,
                  uniqueAddresses, addresses, csvCalls, csvContent, file,
                  timer, errors, outcome, pages, observed,
                  reference >>

\* the ledger answers the listing call with a page of n records
ListingResolves ==
  /\ pc = "listing"
  /\ ListCall(contractIdx) \in pending
  /\ \E n \in 0..Min(MaxSigs, PageLimit) :
       /\ signatures' = PageAfterListing(signatures, SignaturePage(contractIdx, n))
       /\ pages' = Append(pages, n)
  /\ pending' = pending \ { ListCall(contractIdx) }
  /\ sigIdx' = 0
  /\ outcome' = "none"
  /\ pc' = "loopSig"
  /\ emitted' = NoEvent
  /\ UNCHANGED << script, contractIdx, transaction, keyIdx, uniqueAddresses,
                  addresses, csvCalls, csvContent, file, timer, errors,
                  trace, observed,
                  reference >>

ListingFailsReturnsPartial ==
  /\ pc = "listing"
  /\ ListCall(contractIdx) \in pending
  /\ pending' = pending \ { ListCall(contractIdx) }
  /\ errors' = errors \cup { "listing" }
  /\ addresses' = ArrayFrom(uniqueAddresses)
  /\ pc' = "returned"
  /\ emitted' = NoEvent
  /\ UNCHANGED << script, contractIdx, signatures, sigIdx, transaction, keyIdx,
                  uniqueAddresses, csvCalls, csvContent, file, timer, outcome,
                  trace, pages, observed,
                  reference >>

\* the listing call rejects: nothing in getInteractingAddresses catches it, so
\* the catch of the IIFE reports it and the run ends without createCSV
ListingFails ==
  /\ pc = "listing"
  /\ ListCall(contractIdx) \in pending
  /\ pending' = pending \ { ListCall(contractIdx) }
  /\ errors' = errors \cup { "listing" }
  /\ pc' = "Aborted"
  /\ emitted' = NoEvent
  /\ UNCHANGED << script, contractIdx, signatures, sigIdx, transaction, keyIdx,
                  uniqueAddresses, addresses, csvCalls, csvContent, file,
                  timer, outcome, trace, pages, observed,
                  reference >>

\* for-of over the page has a next record: the fetch is issued and awaited
StartFetch ==
  /\ pc = "loopSig"
  /\ sigIdx < Len(signatures)
  /\ sigIdx' = sigIdx + 1
  /\ LET signatureInfo == SignatureAt(signatures, sigIdx + 1)
     IN  /\ pending' = pending \cup { FetchCall(contractIdx, signatureInfo.signature) }
         /\ trace' = Append(trace, Event("fetch", contractIdx,
                                          signatureInfo.signature[2], 0))
  /\ transaction' = NoTransaction
  /\ outcome' = "pending"
  /\ pc' = "fetching"
  /\ emitted' = NoEvent
  /\ UNCHANGED << script, contractIdx, signatures, keyIdx, uniqueAddresses,
                  addresses, csvCalls, csvContent, file, timer, errors,
                  pages, observed,
                  reference >>

EndOfPagePaginates ==
  /\ pc = "loopSig"
  /\ sigIdx >= Len(signatures)
  /\ IF Len(signatures) = Min(MaxSigs, PageLimit)
     THEN /\ pending' = pending \cup { ListCall(contractIdx) }
          /\ trace' = Append(trace, Event("list", contractIdx, 0, 0))
          /\ pc' = "listing"
     ELSE /\ pc' = "loopContract"
          /\ UNCHANGED << pending, trace >>
  /\ emitted' = NoEvent
  /\ UNCHANGED << script, contractIdx, signatures, sigIdx, transaction, keyIdx,
                  uniqueAddresses, addresses, csvCalls, csvContent, file,
                  timer, errors, outcome, pages, observed, reference >>

\* the page is exhausted: on to the next contract
EndOfPage ==
  /\ pc = "loopSig"
  /\ sigIdx >= Len(signatures)
  /\ pc' = "loopContract"
  /\ emitted' = NoEvent
  /\ UNCHANGED << script, contractIdx, signatures, sigIdx, transaction, keyIdx,
                  uniqueAddresses, addresses, csvCalls, csvContent, file,
                  pending, timer, errors, outcome, trace, pages, observed,
                  reference >>

\* the fetch in flight for the current iteration
CurrentFetch == FetchCall(contractIdx, SignatureAt(signatures, sigIdx).signature)

FetchThrowsReturnsNothing ==
  /\ pc = "fetching"
  /\ CurrentFetch \in pending
  /\ pending' = pending \ { CurrentFetch }
  /\ errors' = errors \cup { "fetch" }
  /\ outcome' = "error"
  /\ IF FailurePolicy(script) = "AbortAndReturnPartial"
     THEN /\ addresses' = << >>
          /\ pc' = "returned"
          /\ UNCHANGED << timer, trace, sigIdx >>
     ELSE /\ timer' = Cooldown
          /\ trace' = Append(trace, Event("sleep", contractIdx, sigIdx, Cooldown))
          /\ sigIdx' = ContinueFrom(sigIdx)
          /\ pc' = "sleeping"
          /\ UNCHANGED addresses
  /\ emitted' = NoEvent
  /\ UNCHANGED << script, contractIdx, signatures, transaction, keyIdx,
                  uniqueAddresses, csvCalls, csvContent, file, pages, observed,
                  reference >>

\* getParsedTransaction rejects: the catch block of the script runs.
\* main.ts returns the partial set; part_000 sleeps 10 s and continues.
FetchThrows ==
  /\ pc = "fetching"
  /\ CurrentFetch \in pending
  /\ pending' = pending \ { CurrentFetch }
  /\ errors' = errors \cup { "fetch" }
  /\ outcome' = "error"
  /\ IF FailurePolicy(script) = "AbortAndReturnPartial"
     THEN /\ addresses' = ArrayFrom(uniqueAddresses)
          /\ pc' = "returned"
          /\ UNCHANGED << timer, trace, sigIdx >>
     ELSE /\ timer' = Cooldown
          /\ trace' = Append(trace, Event("sleep", contractIdx, sigIdx, Cooldown))
          /\ sigIdx' = ContinueFrom(sigIdx)
          /\ pc' = "sleeping"
          /\ UNCHANGED addresses
  /\ emitted' = NoEvent
  /\ UNCHANGED << script, contractIdx, signatures, transaction, keyIdx,
                  uniqueAddresses, csvCalls, csvContent, file, pages, observed,
                  reference >>

FetchNotFoundSleeps ==
  /\ pc = "fetching"
  /\ CurrentFetch \in pending
  /\ pending' = pending \ { CurrentFetch }
  /\ transaction' = NoTransaction
  /\ outcome' = "notFound"
  /\ timer' = SleepMs(script)
  /\ trace' = Append(trace, Event("sleep", contractIdx, sigIdx, SleepMs(script)))
  /\ pc' = "sleeping"
  /\ emitted' = NoEvent
  /\ UNCHANGED << script, contractIdx, signatures, sigIdx, keyIdx,
                  uniqueAddresses, addresses, csvCalls, csvContent, file,
                  errors, pages, observed,
                  reference >>

\* getParsedTransaction resolves to null: `continue`
FetchNotFound ==
  /\ pc = "fetching"
  /\ CurrentFetch \in pending
  /\ pending' = pending \ { CurrentFetch }
  /\ transaction' = NoTransaction
  /\ outcome' = "notFound"
  /\ pc' = "loopSig"
  /\ emitted' = NoEvent
  /\ UNCHANGED << script, contractIdx, signatures, sigIdx, keyIdx,
                  uniqueAddresses, addresses, csvCalls, csvContent, file,
                  timer, errors, trace, pages, observed,
                  reference >>

\* the transaction has no message.accountKeys: `continue`
FetchNoKeys ==
  /\ pc = "fetching"
  /\ CurrentFetch \in pending
  /\ pending' = pending \ { CurrentFetch }
  /\ transaction' = KeylessTransaction
  /\ outcome' = "noKeys"
  /\ pc' = "loopSig"
  /\ emitted' = NoEvent
  /\ UNCHANGED << script, contractIdx, signatures, sigIdx, keyIdx,
                  uniqueAddresses, addresses, csvCalls, csvContent, file,
                  timer, errors, trace, pages, observed,
                  reference >>

\* the transaction arrives with its account keys: forEach starts
FetchOk ==
  /\ pc = "fetching"
  /\ CurrentFetch \in pending
  /\ pending' = pending \ { CurrentFetch }
  /\ \E keys \in AccountKeyLists :
       /\ transaction' = ParsedTransaction(keys)
       /\ observed' = observed \cup SignerKeys(keys)
       /\ reference' =
            LET all == Merge(reference.all, SignerSeq(keys))
            IN  [all |-> all,
                 beforeFailure |-> IF "fetch" \in errors
                                   THEN reference.beforeFailure ELSE all]
  /\ outcome' = "ok"
  /\ keyIdx' = 1
  /\ pc' = "forEach"
  /\ emitted' = NoEvent
  /\ UNCHANGED << script, contractIdx, signatures, sigIdx, uniqueAddresses,
                  addresses, csvCalls, csvContent, file, timer, errors, trace,
                  pages >>


\* the 'Found new unique address' report of the forEach callback for a signer:
\* main.ts reports every signer after the add, part_000 only a key the set
\* does not hold yet, before the add
Report(s, set, a) ==
  IF s = "main"
  THEN [address |-> a, count |-> Len(SetAdd(set, a))]
  ELSE IF Has(set, a) THEN NoEvent
       ELSE [address |-> a, count |-> Len(set) + 1]

\* one call of the forEach callback, on accountKeys[keyIdx]
ForEachCallback ==
  /\ pc = "forEach"
  /\ keyIdx <= Len(transaction.accountKeys)
  /\ LET account == transaction.accountKeys[keyIdx]
     IN  IF IsSigner(account)
         THEN /\ uniqueAddresses' = SetAdd(uniqueAddresses, account.pubkey)
              /\ emitted' = Report(script, uniqueAddresses, account.pubkey)
         ELSE /\ UNCHANGED uniqueAddresses
              /\ emitted' = NoEvent
  /\ keyIdx' = keyIdx + 1
  /\ UNCHANGED << script, pc, contractIdx, signatures, sigIdx, transaction,
                  addresses, csvCalls, csvContent, file, pending, timer,
                  errors, outcome, trace, pages, observed,
                  reference >>

ForEachDoneNoAwait ==
  /\ pc = "forEach"
  /\ keyIdx > Len(transaction.accountKeys)
  /\ timer' = SleepMs(script)
  /\ trace' = Append(trace, Event("sleep", contractIdx, sigIdx, SleepMs(script)))
  /\ pc' = "loopSig"
  /\ emitted' = NoEvent
  /\ UNCHANGED << script, contractIdx, signatures, sigIdx, transaction, keyIdx,
                  uniqueAddresses, addresses, csvCalls, csvContent, file,
                  pending, errors, outcome, pages, observed,
                  reference >>

\* forEach is through: the sleep at the end of the iteration is started and
\* awaited
ForEachDone ==
  /\ pc = "forEach"
  /\ keyIdx > Len(transaction.accountKeys)
  /\ timer' = SleepMs(script)
  /\ trace' = Append(trace, Event("sleep", contractIdx, sigIdx, SleepMs(script)))
  /\ pc' = "sleeping"
  /\ emitted' = NoEvent
  /\ UNCHANGED << script, contractIdx, signatures, sigIdx, transaction, keyIdx,
                  uniqueAddresses, addresses, csvCalls, csvContent, file,
                  pending, errors, outcome, pages, observed,
                  reference >>

SleepResolvesNoResume ==
  /\ timer # 0
  /\ timer' = 0
  /\ pc' = pc
  /\ emitted' = NoEvent
  /\ UNCHANGED << script, contractIdx, signatures, sigIdx, transaction, keyIdx,
                  uniqueAddresses, addresses, csvCalls, csvContent, file,
                  pending, errors, outcome, trace, pages, observed,
                  reference >>

\* the timer fires; the function, suspended on it, goes on with the loop
SleepResolves ==
  /\ timer # 0
  /\ timer' = 0
  /\ pc' = IF pc = "sleeping" THEN "loopSig" ELSE pc
  /\ emitted' = NoEvent
  /\ UNCHANGED << script, contractIdx, signatures, sigIdx, transaction, keyIdx,
                  uniqueAddresses, addresses, csvCalls, csvContent, file,
                  pending, errors, outcome, trace, pages, observed,
                  reference >>

\* every contract is done: return Array.from(uniqueAddresses)
ReturnAll ==
  /\ pc = "loopContract"
  /\ contractIdx >= Len(contracts)
  /\ addresses' = ArrayFrom(uniqueAddresses)
  /\ pc' = "returned"
  /\ emitted' = NoEvent
  /\ UNCHANGED << script, contractIdx, signatures, sigIdx, transaction, keyIdx,
                  uniqueAddresses, csvCalls, csvContent, file, pending, timer,
                  errors, outcome, trace, pages, observed,
                  reference >>

\* ------------------------------------------------------ IIFE and createCSV

CreateCSVOnlyOnSuccess ==
  /\ pc = "returned"
  /\ errors = {}
  /\ csvCalls' = csvCalls + 1
  /\ csvContent' = CsvContent(addresses)
  /\ pc' = "writing"
  /\ emitted' = NoEvent
  /\ UNCHANGED << script, contractIdx, signatures, sigIdx, transaction, keyIdx,
                  uniqueAddresses, addresses, file, pending, timer, errors,
                  outcome, trace, pages, observed, reference >>

\* the IIFE hands the returned addresses to createCSV, which builds the text
\* and awaits Deno.writeTextFile
CreateCSV ==
  /\ pc = "returned"
  /\ csvCalls' = csvCalls + 1
  /\ csvContent' = CsvContent(addresses)
  /\ pc' = "writing"
  /\ emitted' = NoEvent
  /\ UNCHANGED << script, contractIdx, signatures, sigIdx, transaction, keyIdx,
                  uniqueAddresses, addresses, file, pending, timer, errors,
                  outcome, trace, pages, observed,
                  reference >>

\* the file is written
WriteResolves ==
  /\ pc = "writing"
  /\ file' = csvContent
  /\ pc' = "Done"
  /\ emitted' = NoEvent
  /\ UNCHANGED << script, contractIdx, signatures, sigIdx, transaction, keyIdx,
                  uniqueAddresses, addresses, csvCalls, csvContent, pending,
                  timer, errors, outcome, trace, pages, observed,
                  reference >>

\* Deno.writeTextFile rejects: the catch of the IIFE reports it
WriteThrows ==
  /\ pc = "writing"
  /\ errors' = errors \cup { "write" }
  /\ pc' = "Aborted"
  /\ emitted' = NoEvent
  /\ UNCHANGED << script, contractIdx, signatures, sigIdx, transaction, keyIdx,
                  uniqueAddresses, addresses, csvCalls, csvContent, file,
                  pending, timer, outcome, trace, pages, observed,
                  reference >>

Next ==
  \/ StartListing
  \/ ListingResolves
  \/ ListingFails
  \/ StartFetch
  \/ EndOfPage
  \/ FetchThrows
  \/ FetchNotFound
  \/ FetchNoKeys
  \/ FetchOk
  \/ ForEachCallback
  \/ ForEachDone
  \/ SleepResolves
  \/ ReturnAll
  \/ CreateCSV
  \/ WriteResolves
  \/ WriteThrows

Spec == Init /\ [][Next]_vars

\* every call, delay and write that is awaited completes, and the script runs
\* on whenever it can
FairSpec == Spec /\ WF_vars(Next)

TypeOK ==
  /\ script \in Scripts
  /\ pc \in { "loopContract", "listing", "loopSig", "fetching", "forEach",
              "sleeping", "returned", "writing", "Done", "Aborted" }
  /\ contractIdx \in 0..Len(contracts)
  /\ sigIdx \in 0..Len(signatures)
  /\ timer \in { 0, SleepMain, SleepPart, Cooldown }
  /\ errors \subseteq { "listing", "fetch", "write" }
  /\ outcome \in { "none", "pending", "error", "notFound", "noKeys", "ok" }
  /\ Range(uniqueAddresses) \subseteq Addrs
  /\ csvCalls \in 0..1


\* ------------------------------------------------------------ properties

Last(s) == s[Len(s)]

\* getInteractingAddresses has returned its array to the IIFE
HasReturned == pc = "returned" \/ csvCalls > 0

\* the set as it was when it held n addresses
FirstFound(n) == Range(SubSeq(uniqueAddresses, 1, n))

C2_AbortReturnsPartial ==
  (script = "main" /\ "fetch" \in errors) =>
     /\ HasReturned
     /\ pending = {}
     /\ timer = 0
     /\ Last(trace).op = "fetch"
     /\ Last(trace).contract = contractIdx
     /\ Last(trace).sig = sigIdx
     /\ addresses = uniqueAddresses
     /\ Len(addresses) = Last(trace).found
     /\ Range(addresses) = observed

C2_Witness ==
  /\ script = "main"
  /\ "fetch" \in errors
  /\ pc = "Done"
  /\ addresses # << >>
  /\ (sigIdx < Len(signatures) \/ contractIdx < Len(contracts))

\* C3: in part_000, a fetch of signature S that fails is followed by the
\* cooldown with the set unchanged; what follows the cooldown is the fetch of
\* the next record of the page (S+1) when there is one, issued with the set
\* still as it was before S; and when that iteration ends successfully the set
\* is the set from before S together with the signers of S+1.
C3_SkipAndContinue ==
  script = "part_000" =>
    \A j \in 1..(Len(trace) - 1) :
      (trace[j].op = "fetch" /\ trace[j + 1].op = "sleep" /\ trace[j + 1].ms = Cooldown) =>
        /\ trace[j + 1].found = trace[j].found
        /\ (j + 1 = Len(trace) /\ pc = "sleeping") => Len(uniqueAddresses) = trace[j].found
        /\ (j + 2 <= Len(trace)) =>
             /\ trace[j + 2].found = trace[j].found
             /\ IF trace[j].sig < pages[trace[j].contract]
                THEN /\ trace[j + 2].op = "fetch"
                     /\ trace[j + 2].contract = trace[j].contract
                     /\ trace[j + 2].sig = trace[j].sig + 1
                ELSE /\ trace[j + 2].op = "list"
                     /\ trace[j + 2].contract = trace[j].contract + 1
        /\ ( /\ j + 3 = Len(trace)
             /\ trace[j + 2].op = "fetch"
             /\ pc = "sleeping"
             /\ outcome = "ok" )
           => Range(uniqueAddresses) =
                FirstFound(trace[j].found) \cup SignerKeys(transaction.accountKeys)

C3_Witness ==
  /\ script = "part_000"
  /\ Len(trace) >= 4
  /\ trace[Len(trace) - 3].op = "fetch"
  /\ trace[Len(trace) - 2].op = "sleep"
  /\ trace[Len(trace) - 2].ms = Cooldown
  /\ trace[Len(trace) - 1].op = "fetch"
  /\ pc = "sleeping"
  /\ outcome = "ok"
  /\ trace[Len(trace) - 3].found > 0
  /\ Len(uniqueAddresses) > trace[Len(trace) - 3].found

\* C4: once a listing call has failed the run is in Aborted: no call is in
\* flight, no delay is pending, the failed listing call is the last call of the
\* run, and createCSV has not been called and no file has been written,
\* whatever the set holds.
C4_ListingFailureIsFatal ==
  "listing" \in errors =>
     /\ pc = "Aborted"
     /\ pending = {}
     /\ timer = 0
     /\ Last(trace).op = "list"
     /\ Last(trace).contract = contractIdx
     /\ csvCalls = 0
     /\ csvContent = << >>
     /\ file = << >>

C4_Witness ==
  /\ "listing" \in errors
  /\ pc = "Aborted"
  /\ contractIdx > 1
  /\ uniqueAddresses # << >>


\* C5 as stated: every listing call and every transaction fetch but the first
\* call of the run comes right after a delay, so that a delay follows each
\* listing call and each iteration, however it ended.
C5_DelayBeforeEveryCall ==
  \A j \in 2..Len(trace) :
    trace[j].op \in { "list", "fetch" } => trace[j - 1].op = "sleep"

\* C5 amended: a delay follows exactly the iterations whose transaction was
\* fetched with an account-key list (5000 ms in main.ts, 100 ms in part_000)
\* and, in part_000, the iterations whose fetch failed (10000 ms); no delay
\* follows a listing call, a transaction that was not found or has no
\* account-key list, or a failed fetch in main.ts.
C5_DelayAfterFetchedOrFailed ==
  [][ /\ (pc = "listing" /\ pc' # "listing") =>
           (timer' = 0 /\ trace' = trace)
      /\ (pc = "fetching" /\ pc' # "fetching") =>
           CASE outcome' \in { "notFound", "noKeys" } ->
                  (timer' = 0 /\ trace' = trace /\ pc' = "loopSig")
             [] outcome' = "error" /\ script = "main" ->
                  (timer' = 0 /\ trace' = trace /\ pc' = "returned")
             [] outcome' = "error" /\ script = "part_000" ->
                  ( /\ timer' = Cooldown
                    /\ trace' = Append(trace, Event("sleep", contractIdx, sigIdx, Cooldown))
                    /\ pc' = "sleeping" )
             [] outcome' = "ok" ->
                  (timer' = 0 /\ trace' = trace /\ pc' = "forEach")
             [] OTHER -> FALSE
      /\ (pc = "forEach" /\ pc' # "forEach") =>
           LET ms == IF script = "main" THEN SleepMain ELSE SleepPart
           IN  /\ outcome = "ok"
               /\ timer' = ms
               /\ trace' = Append(trace, Event("sleep", contractIdx, sigIdx, ms))
               /\ pc' = "sleeping"
      /\ (pc = "sleeping" /\ pc' # "sleeping") =>
           (timer # 0 /\ timer' = 0 /\ pc' = "loopSig")
    ]_vars

C5_Witness ==
  /\ script = "main"
  /\ pc = "sleeping"
  /\ timer = SleepMain
  /\ \E j \in 1..(Len(trace) - 1) : trace[j].op = "fetch" /\ trace[j + 1].op = "fetch"
  /\ \E j \in 1..(Len(trace) - 1) : trace[j].op = "list" /\ trace[j + 1].op = "fetch"

\* C6: a fetch that ends with no transaction, or with a transaction without
\* account-key list, leaves the set, the error reports and the history of
\* calls and delays as they were and starts no delay; the loop is back at its
\* head on the same record, and its next step issues the fetch of the next
\* record of the page, when there is one, with no delay pending.
C6_SkipWithoutErrorOrDelay ==
  [][ /\ (pc = "fetching" /\ outcome' \in { "notFound", "noKeys" }) =>
           /\ uniqueAddresses' = uniqueAddresses
           /\ errors' = errors
           /\ timer' = 0
           /\ trace' = trace
           /\ sigIdx' = sigIdx
           /\ pc' = "loopSig"
      /\ (pc = "loopSig" /\ outcome \in { "notFound", "noKeys" }
            /\ sigIdx < Len(signatures)) =>
           /\ pc' = "fetching"
           /\ sigIdx' = sigIdx + 1
           /\ timer' = 0
           /\ uniqueAddresses' = uniqueAddresses
           /\ Last(trace').op = "fetch"
           /\ Last(trace').sig = sigIdx + 1
           /\ Last(trace).op = "fetch"
           /\ Last(trace).sig = sigIdx
    ]_vars

C6_Witness ==
  /\ pc = "fetching"
  /\ Len(trace) >= 2
  /\ trace[Len(trace) - 1].op = "fetch"
  /\ uniqueAddresses # << >>

\* C7: the set and the returned array never hold an address twice; a call of
\* the forEach callback on a signer leaves the set as it is when it holds the
\* key and appends the key, growing the set by one, when it does not; a call
\* on a non-signer leaves the set as it is.
C7_NoDuplicates ==
  /\ [](Cardinality(Range(uniqueAddresses)) = Len(uniqueAddresses))
  /\ [](Cardinality(Range(addresses)) = Len(addresses))
  /\ [][ (pc = "forEach" /\ keyIdx' = keyIdx + 1) =>
           LET account == transaction.accountKeys[keyIdx]
           IN  IF account.signer
               THEN IF account.pubkey \in Range(uniqueAddresses)
                    THEN uniqueAddresses' = uniqueAddresses
                    ELSE /\ Len(uniqueAddresses') = Len(uniqueAddresses) + 1
                         /\ uniqueAddresses' = Append(uniqueAddresses, account.pubkey)
               ELSE uniqueAddresses' = uniqueAddresses
    ]_vars

C7_Witness ==
  /\ pc = "forEach"
  /\ keyIdx = 2
  /\ Len(uniqueAddresses) = 1
  /\ transaction.accountKeys[1].signer
  /\ transaction.accountKeys[1].pubkey = uniqueAddresses[1]
  /\ Last(trace).found = 1


\* the listing and fetch calls of the history, in the order they were issued
IsNetworkCall(e) == e.op \in { "list", "fetch" }

NetworkCalls == SelectSeq(trace, IsNetworkCall)

\* C8: the calls of a run are issued in the order of the input: the first call
\* lists the first contract; after the listing of a contract comes the fetch of
\* the first record of its page or, when the page is empty, the listing of the
\* next contract; after the fetch of record i comes the fetch of record i+1 of
\* the same page or, when i was the last, the listing of the next contract.
C8_CallsInOrder ==
  LET calls == NetworkCalls
  IN  /\ Len(calls) > 0 => (calls[1].op = "list" /\ calls[1].contract = 1)
      /\ \A j \in 1..(Len(calls) - 1) :
           LET e == calls[j]
               f == calls[j + 1]
           IN  IF e.sig < pages[e.contract]
               THEN f.op = "fetch" /\ f.contract = e.contract /\ f.sig = e.sig + 1
               ELSE f.op = "list" /\ f.contract = e.contract + 1 /\ f.sig = 0

C8_Witness ==
  /\ \E j \in 1..Len(trace) :
       trace[j].op = "fetch" /\ trace[j].contract = 1 /\ trace[j].sig = 2
  /\ \E j \in 1..Len(trace) :
       trace[j].op = "fetch" /\ trace[j].contract = 2 /\ trace[j].sig = 2

\* C9: at most one listing or fetch call is in flight, and none is while a
\* delay is pending.
C9_OneCallInFlight ==
  /\ Cardinality(pending) <= 1
  /\ timer # 0 => pending = {}

C9_Witness ==
  /\ Cardinality(pending) = 1
  /\ pc = "fetching"
  /\ Last(trace).op = "fetch"
  /\ Len(trace) > 1
  /\ trace[Len(trace) - 1].op = "sleep"

\* C10: when the page of a contract is empty, no fetch is ever issued for that
\* contract: the call after its listing is the listing of the next contract,
\* issued with the set as large as it was at the listing, and while its
\* listing is the last call of the run the set stays as large as it was (empty
\* for the first contract); the loop head over an empty page hands over to the
\* next contract without touching the set.
C10_EmptyPageNoFetch ==
  /\ [](\A j \in 1..Len(trace) :
          ( /\ trace[j].op = "list"
            /\ trace[j].contract <= Len(pages)
            /\ pages[trace[j].contract] = 0 ) =>
              /\ \A k \in 1..Len(trace) :
                   ~(trace[k].op = "fetch" /\ trace[k].contract = trace[j].contract)
              /\ j < Len(trace) =>
                   /\ trace[j + 1].op = "list"
                   /\ trace[j + 1].found = trace[j].found
              /\ j = Len(trace) => Len(uniqueAddresses) = trace[j].found
              /\ j = 1 => trace[j].found = 0)
  /\ [][ (pc = "loopSig" /\ signatures = << >>) =>
           /\ pc' = "loopContract"
           /\ pending' = {}
           /\ uniqueAddresses' = uniqueAddresses
           /\ trace' = trace
    ]_vars

C10_Witness ==
  /\ pc = "Done"
  /\ Len(pages) = 2
  /\ pages[2] = 0
  /\ pages[1] > 0
  /\ addresses # << >>


\* C11: the text createCSV hands to the file system, and the file once it is
\* written, is the returned addresses in their order (the order of their
\* first insertion into the set), one ';' between each two neighbours, then
\* exactly one line break, and nothing before the first address; for the
\* addresses Addr1, Addr2 it is "Addr1;Addr2\n".
C11_CsvIsJoinedRecord ==
  csvCalls > 0 =>
     LET n == Len(addresses)
     IN  /\ addresses = uniqueAddresses
         /\ addresses = reference.beforeFailure \/ addresses = reference.all
         /\ Len(csvContent) = IF n = 0 THEN 1 ELSE 2 * n
         /\ \A k \in 1..n : csvContent[2 * k - 1] = addresses[k]
         /\ \A k \in 1..(n - 1) : csvContent[2 * k] = ";"
         /\ Last(csvContent) = "\n"
         /\ \A k \in 1..(Len(csvContent) - 1) : csvContent[k] # "\n"
         /\ file \in { << >>, csvContent }
         /\ pc = "Done" => file = csvContent
         /\ addresses = << "Addr1", "Addr2" >> =>
              csvContent = << "Addr1", ";", "Addr2", "\n" >>

C11_Witness ==
  /\ pc = "Done"
  /\ addresses = << "Addr1", "Addr2" >>
  /\ file = << "Addr1", ";", "Addr2", "\n" >>


\* C12: no step of a run takes an address out of the set or moves one: the
\* set after a step is the set before it with what the step appended; so the
\* array getInteractingAddresses returns, also on an abort, holds every
\* address the set ever held.
C12_SetGrowsMonotonically ==
  /\ [][ /\ Range(uniqueAddresses) \subseteq Range(uniqueAddresses')
         /\ Len(uniqueAddresses) <= Len(uniqueAddresses')
         /\ SubSeq(uniqueAddresses', 1, Len(uniqueAddresses)) = uniqueAddresses
      ]_vars
  /\ [](HasReturned =>
          /\ Range(uniqueAddresses) \subseteq Range(addresses)
          /\ \A j \in 1..Len(trace) : trace[j].found <= Len(addresses))

C12_Witness ==
  /\ HasReturned
  /\ Len(addresses) = 2
  /\ \E j \in 1..Len(trace) :
       trace[j].op = "list" /\ trace[j].contract = 2 /\ trace[j].found = 1


\* the positions of the history that hold a call `op` for contract c
CallsOf(op, c) ==
  { j \in 1..Len(trace) : trace[j].op = op /\ trace[j].contract = c }

\* C13: in part_000 a fetch that fails starts the 10 s cooldown and nothing
\* else; what follows the cooldown in the history is no second delay and no
\* second fetch of the same record, but the fetch of the next record of the
\* page when there is one; and no record of a page is fetched twice, so a page
\* of n records causes at most n fetches.
C13_FailedFetchIsNotRetried ==
  /\ [][ (script = "part_000" /\ pc = "fetching" /\ outcome' = "error") =>
           /\ timer' = Cooldown
           /\ trace' = Append(trace, Event("sleep", contractIdx, sigIdx, Cooldown))
           /\ pending' = {}
      ]_vars
  /\ [](script = "part_000" =>
          /\ \A j \in 1..(Len(trace) - 2) :
               (trace[j].op = "fetch" /\ trace[j + 1].op = "sleep"
                  /\ trace[j + 1].ms = Cooldown) =>
                 /\ trace[j + 2].op # "sleep"
                 /\ ~( /\ trace[j + 2].op = "fetch"
                       /\ trace[j + 2].contract = trace[j].contract
                       /\ trace[j + 2].sig = trace[j].sig )
                 /\ trace[j].sig < pages[trace[j].contract] =>
                      /\ trace[j + 2].op = "fetch"
                      /\ trace[j + 2].contract = trace[j].contract
                      /\ trace[j + 2].sig = trace[j].sig + 1
          /\ \A j \in 1..Len(trace) : \A k \in 1..Len(trace) :
               ( /\ j < k
                 /\ trace[j].op = "fetch"
                 /\ trace[k].op = "fetch"
                 /\ trace[j].contract = trace[k].contract )
               => trace[j].sig # trace[k].sig
          /\ \A c \in 1..Len(pages) : Cardinality(CallsOf("fetch", c)) <= pages[c])

C13_Witness ==
  /\ script = "part_000"
  /\ HasReturned
  /\ \E j \in 1..(Len(trace) - 2) :
       /\ trace[j].op = "fetch"
       /\ trace[j].sig = 1
       /\ trace[j + 1].op = "sleep"
       /\ trace[j + 1].ms = Cooldown
       /\ trace[j + 2].op = "fetch"
       /\ trace[j + 2].sig = 2

Terminated == HasReturned \/ "listing" \in errors

\* C16: when every call and delay that is awaited completes, the run reaches
\* a terminal state, in part_000 also when every fetch fails.
C16_RunTerminates == <>Terminated

C16_Witness ==
  /\ script = "part_000"
  /\ HasReturned
  /\ \A c \in 1..Len(contracts) : Cardinality(CallsOf("fetch", c)) = MaxSigs
  /\ \A j \in 1..Len(trace) :
       trace[j].op = "fetch" =>
         (j < Len(trace) /\ trace[j + 1].op = "sleep" /\ trace[j + 1].ms = Cooldown)


\* C15: in main.ts a run whose fetch failed goes on to createCSV: it is called,
\* once and never twice, with the partial set the function returned; a run
\* whose listing call failed never calls createCSV.
C15_AbortStillWritesPartial ==
  /\ []((script = "main" /\ "fetch" \in errors) =>
          /\ csvCalls <= 1
          /\ csvCalls = 1 =>
               /\ addresses = uniqueAddresses
               /\ addresses = reference.beforeFailure
               /\ csvContent = CsvContent(addresses)
               /\ file \in { << >>, csvContent })
  /\ ((script = "main" /\ "fetch" \in errors) ~> (csvCalls = 1))
  /\ []("listing" \in errors => (csvCalls = 0 /\ file = << >>))
  /\ [][csvCalls' >= csvCalls /\ ("listing" \in errors => "listing" \in errors')]_vars

C15_Witness ==
  /\ script = "main"
  /\ "fetch" \in errors
  /\ csvCalls = 1
  /\ file = csvContent
  /\ Len(csvContent) > 1
  /\ "listing" \notin errors


\* C17: a 'Found new unique address' report comes only from a step that
\* inserts the reported address, which the set did not hold, and the count it
\* carries is the size of the set after that insertion; reporting changes
\* nothing else of the step.
C17_ReportOnlyOnInsertion ==
  [][ emitted' # NoEvent =>
        /\ pc = "forEach"
        /\ ~Has(uniqueAddresses, emitted'.address)
        /\ uniqueAddresses' = Append(uniqueAddresses, emitted'.address)
        /\ emitted'.count = Len(uniqueAddresses')
    ]_vars


\* What a run amounts to, told from the ledger's answers alone; none of the
\* definitions below, nor `pages` and `reference`, looks at which script runs,
\* so two runs of the two scripts over the same answers have the same values.

IsPrefix(a, b) == Len(a) <= Len(b) /\ SubSeq(b, 1, Len(a)) = a

\* the calls a page of n records of contract c asks for
CallsForPage(c, n) ==
  << ListCall(c) >> \o [k \in 1..n |-> [op |-> "fetch", contract |-> c, sig |-> k]]

\* the calls the pages returned so far ask for, contract by contract
RECURSIVE CallsForPages(_)
CallsForPages(pgs) ==
  IF Len(pgs) = 0 THEN << >>
  ELSE CallsForPages(SubSeq(pgs, 1, Len(pgs) - 1)) \o CallsForPage(Len(pgs), Last(pgs))

\* the listing and fetch calls the run has issued
IssuedCalls ==
  [j \in 1..Len(NetworkCalls) |->
     [op |-> NetworkCalls[j].op, contract |-> NetworkCalls[j].contract,
      sig |-> NetworkCalls[j].sig]]

\* C18: a run of either script in which no fetch failed has issued, when it
\* returns, exactly the calls the pages ask for, in that order, and returns
\* exactly the signer keys of the fetched transactions in the order of their
\* first occurrence; both are the same for the two scripts.  What depends on
\* the script is the length of the delays (5000 ms or 100 ms, never the
\* cooldown) and the report.
C18_SameCallsAndResultWithoutFailure ==
  /\ "fetch" \notin errors =>
       /\ IsPrefix(IssuedCalls, CallsForPages(pages) \o << ListCall(Len(pages) + 1) >>)
       /\ reference.beforeFailure = reference.all
       /\ \A j \in 1..Len(trace) :
            trace[j].op = "sleep" =>
              trace[j].ms = IF script = "main" THEN SleepMain ELSE SleepPart
  /\ (HasReturned /\ "fetch" \notin errors) =>
       /\ IssuedCalls = CallsForPages(pages)
       /\ Len(pages) = Len(contracts)
       /\ addresses = reference.all

C18_Witness ==
  /\ HasReturned
  /\ "fetch" \notin errors
  /\ script = "part_000"
  /\ addresses = << "Addr2", "Addr1" >>
  /\ Len(IssuedCalls) = Len(contracts) * (MaxSigs + 1)

\* C19: with no failed listing, a run of main.ts in which a fetch failed
\* returns the signer keys accumulated from the answers before the first
\* failed fetch, and has issued the calls the pages ask for up to that fetch;
\* a run of part_000 returns the keys accumulated from all answers and has
\* issued all the calls the pages ask for.  The first is a prefix of the
\* second, in insertion order, and so a subset of it.
C19_AbortResultIsPrefixOfSkipResult ==
  (HasReturned /\ "listing" \notin errors) =>
     /\ script = "main" =>
          /\ addresses = reference.beforeFailure
          /\ IsPrefix(IssuedCalls, CallsForPages(pages))
          /\ "fetch" \in errors => Last(IssuedCalls).op = "fetch"
     /\ script = "part_000" =>
          /\ addresses = reference.all
          /\ IssuedCalls = CallsForPages(pages)
          /\ IsPrefix(reference.beforeFailure, addresses)
          /\ Range(reference.beforeFailure) \subseteq Range(addresses)
     /\ IsPrefix(reference.beforeFailure, reference.all)

C19_Witness ==
  /\ HasReturned
  /\ "listing" \notin errors
  /\ "fetch" \in errors
  /\ script = "part_000"
  /\ Len(reference.beforeFailure) = 1
  /\ Len(addresses) = 2

====
